---- MODULE Spec2Model ----
(***************************************************************************)
(* Model of lucid/maplayout.py: the directional tree layout of a map of    *)
(* widgets on a QGraphicsScene.                                            *)
(*                                                                         *)
(* Node objects are identified by <<generation, idx>>: every build_tree    *)
(* call creates new DiagramNode objects over the same shapes.  The scene   *)
(* is modelled by the scene position of every shape, the item group each   *)
(* shape currently belongs to, and the position and accumulated bounding   *)
(* rectangle of every node's QGraphicsItemGroup.                           *)
(*                                                                         *)
(* Widget sizes are even numbers, so that the halves the code takes        *)
(* (w / 2.0) are exact integers.                                           *)
(***************************************************************************)
EXTENDS Integers, Sequences, FiniteSets, TLC

None == "none"

----------------------------------------------------------------------------
(* Directions *)

Dirs == {"n", "s", "e", "w", "ne", "nw", "se", "sw"}

\* 'c' in direction: the substring test the code applies to a direction name
HasChar(c, d) ==
    CASE c = "n" -> d \in {"n", "ne", "nw"}
      [] c = "s" -> d \in {"s", "se", "sw"}
      [] c = "e" -> d \in {"e", "ne", "se"}
      [] c = "w" -> d \in {"w", "nw", "sw"}

\* maploader._INVERT_DIRECTION
InvertDirection(d) ==
    CASE d = "n" -> "s"   [] d = "s" -> "n"
      [] d = "e" -> "w"   [] d = "w" -> "e"
      [] d = "ne" -> "sw" [] d = "sw" -> "ne"
      [] d = "nw" -> "se" [] d = "se" -> "nw"

----------------------------------------------------------------------------
(* calculate_position *)

\* layout's default min_spacing
MinSpacing == 30

\* A bounding rect as returned by get_bounding_rect:
\* [x, y, w, h, gx, gy, gw, gh]

\* lines 110-143: the parent is placed relative to the node, along the
\* inverted direction
ParentToNode(p, n, direction, min_spacing) ==
    LET inv_dir == InvertDirection(direction)
        spacing_x == IF HasChar("e", inv_dir)
                       THEN (IF n.x = 0 THEN n.gw - n.w ELSE 0)
                     ELSE IF HasChar("w", inv_dir)
                       THEN (IF n.x # 0 THEN n.gw - n.w ELSE 0)
                     ELSE 0
    IN  IF HasChar("n", inv_dir) \/ HasChar("s", inv_dir)
          THEN LET x == IF HasChar("e", inv_dir)
                          THEN n.x + n.w + spacing_x + min_spacing
                        ELSE IF HasChar("w", inv_dir)
                          THEN n.x - min_spacing - spacing_x - p.w
                        ELSE n.x + (n.w \div 2) - (p.w \div 2)
                   y == IF HasChar("n", inv_dir)
                          THEN n.y - min_spacing
                               - (IF n.y # n.gy THEN n.gh - n.h ELSE 0) - p.h
                        ELSE n.y + n.h + min_spacing
                               + (IF n.y = 0 THEN n.gh - n.h ELSE 0)
               IN  <<x, y>>
        ELSE IF HasChar("e", inv_dir)
          THEN <<n.x + n.w + spacing_x + min_spacing,
                 n.y + (n.h \div 2) - (p.h \div 2)>>
        ELSE <<n.x - min_spacing - spacing_x - p.w,
               n.y + (n.h \div 2) - (p.h \div 2)>>

\* lines 144-165: the node is placed relative to the parent, along the
\* declared direction (spacing_y is still 0 here)
NodeToParent(p, n, direction, min_spacing) ==
    IF HasChar("n", direction) \/ HasChar("s", direction)
      THEN LET x == IF HasChar("e", direction)
                      THEN p.x + p.w + min_spacing
                    ELSE IF HasChar("w", direction)
                      THEN p.x - min_spacing - n.w
                    ELSE p.x + (p.w \div 2) - (n.w \div 2)
               y == IF HasChar("n", direction)
                      THEN n.y - min_spacing - 0 - p.h
                    ELSE p.y + p.h + min_spacing
           IN  <<x, y>>
    ELSE IF HasChar("e", direction)
      THEN <<p.x + p.w + min_spacing, p.y + (p.h \div 2) - (n.h \div 2)>>
    ELSE <<p.x - min_spacing - n.w, p.y + (p.h \div 2) - (n.h \div 2)>>

calculate_position(p, n, direction, min_spacing, parent_to_node) ==
    IF parent_to_node
      THEN ParentToNode(p, n, direction, min_spacing)
      ELSE NodeToParent(p, n, direction, min_spacing)

----------------------------------------------------------------------------
(* Shapes and the declaration handed to build_tree *)

\* the shapes of the map, in the order of the shapes dict
ShapeOrder == <<"A", "B", "C", "D">>

AllShapes == {ShapeOrder[i] : i \in 1..Len(ShapeOrder)}

\* widget.width() and widget.height() of every shape
Width(sh) ==
    CASE sh = "A" -> 40 [] sh = "B" -> 30 [] sh = "C" -> 20 [] OTHER -> 10

Height(sh) ==
    CASE sh = "A" -> 20 [] sh = "B" -> 10 [] sh = "C" -> 20 [] OTHER -> 30

InSeq(x, seq) == \E i \in 1..Len(seq) : seq[i] = x

\* a dict kept as the sequence of its <<key, value>> items in insertion
\* order: d[k] = v
DictSet(d, k, v) ==
    IF \E i \in 1..Len(d) : d[i][1] = k
      THEN [i \in 1..Len(d) |-> IF d[i][1] = k THEN <<k, v>> ELSE d[i]]
      ELSE Append(d, <<k, v>>)

VARIABLES
    ids,          \* shapes.keys(), in dict order
    decl,         \* connections: idx -> items of {direction: child idx}
    gen,          \* number of build_tree calls; nodes are <<gen, idx>>
    outcome,      \* of the last build_tree: "none", "root" or "error"
    root,         \* the node build_tree returned
    connections,  \* node.connections, as items <<direction, child>>
    parent,       \* node.parent
    positioned,   \* node.positioned
    spos,         \* shape.scenePos()
    member,       \* the node whose group holds the shape
    gpos,         \* node.group.pos()
    grect,        \* node.group.boundingRect()
    ginscene,     \* node.group in scene.items()
    lvisited,     \* the default visited list of layout
    cvisited,     \* the default visited list of connect_widgets
    rvisited,     \* the default visited list of remove_groups
    lines,        \* the lines added to the scene
    log,          \* the placements logged by calculate_position
    calls,        \* number of top-level calls made
    lastOp,       \* the last top-level call
    entryGuard,   \* the visited list the last top-level call started with
    lineMark,     \* Len(lines) when the last top-level call started
    phase,        \* of the current nodes: "new", "failed", "built", "laid"
                  \* or "torn" (their groups are destroyed); "calc" when
                  \* calculate_position is called directly
    cycle,        \* of the shape set: "fresh", "laid", "torn", "relaid"
    cin,          \* the arguments of a direct calculate_position call
    cout          \* and its result

vars == <<ids, decl, gen, outcome, root, connections, parent, positioned,
          spos, member, gpos, grect, ginscene, lvisited, cvisited, rvisited,
          lines, log, calls, lastOp, entryGuard, lineMark, phase, cycle,
          cin, cout>>

Node(idx) == <<gen, idx>>

IdSet == {ids[i] : i \in 1..Len(ids)}

----------------------------------------------------------------------------
(* DiagramNode *)

\* get_direction_to_child; None stands for the ValueError
get_direction_to_child(p, node) ==
    IF \E i \in 1..Len(connections[p]) : connections[p][i][2] = node
      THEN LET i == CHOOSE i \in 1..Len(connections[p]) :
                      /\ connections[p][i][2] = node
                      /\ \A j \in 1..(i - 1) : connections[p][j][2] # node
           IN  connections[p][i][1]
      ELSE None

get_nodes(p) == [i \in 1..Len(connections[p]) |-> connections[p][i][2]]

\* walk_depth_first: acc.order is what has been yielded so far, acc.visited
\* the visited list shared by the whole walk; i is the position in
\* self.connections
RECURSIVE WalkFrom(_, _, _)
WalkFrom(self, i, acc) ==
    IF i > Len(connections[self])
      THEN [order |-> Append(acc.order, self),
            visited |-> Append(acc.visited, self)]
      ELSE LET node == connections[self][i][2]
           IN  IF InSeq(node, acc.visited)
                 THEN WalkFrom(self, i + 1, acc)
                 ELSE WalkFrom(self, i + 1,
                        WalkFrom(node, 1,
                          [acc EXCEPT !.visited = Append(@, node)]))

walk_depth_first(self) ==
    WalkFrom(self, 1, [order |-> <<>>, visited |-> <<>>]).order

\* QRectF.isNull and QRectF.operator|
IsNullRect(r) == r.w = 0 /\ r.h = 0

NullRect == [x |-> 0, y |-> 0, w |-> 0, h |-> 0]

Min(a, b) == IF a < b THEN a ELSE b
Max(a, b) == IF a > b THEN a ELSE b

UnionRect(r, q) ==
    IF IsNullRect(r) THEN q
    ELSE IF IsNullRect(q) THEN r
    ELSE LET l == Min(r.x, q.x)
             t == Min(r.y, q.y)
         IN  [x |-> l, y |-> t,
              w |-> Max(r.x + r.w, q.x + q.w) - l,
              h |-> Max(r.y + r.h, q.y + q.h) - t]

\* get_bounding_rect, on the scene state s
get_bounding_rect(s, n) ==
    [x |-> s.spos[n][1], y |-> s.spos[n][2],
     w |-> Width(n), h |-> Height(n),
     gx |-> s.gpos[n][1] + s.grect[n].x,
     gy |-> s.gpos[n][2] + s.grect[n].y,
     gw |-> s.grect[n].w, gh |-> s.grect[n].h]

\* group.addToGroup(shape): the shape keeps its scene position and the
\* group's bounding rect grows by the shape's rect
AddToGroup(s, g, sh) ==
    [s EXCEPT !.member[sh] = g,
              !.grect[g] = UnionRect(@, [x |-> s.spos[sh][1] - s.gpos[g][1],
                                         y |-> s.spos[sh][2] - s.gpos[g][2],
                                         w |-> Width(sh), h |-> Height(sh)])]

\* group.setPos(x, y): the members of the group move with it
SetPos(s, g, x, y) ==
    [s EXCEPT !.gpos[g] = <<x, y>>,
              !.spos = [sh \in DOMAIN s.spos |->
                          IF s.member[sh] = g
                            THEN <<s.spos[sh][1] + x - s.gpos[g][1],
                                   s.spos[sh][2] + y - s.gpos[g][2]>>
                            ELSE s.spos[sh]]]

----------------------------------------------------------------------------
(* layout *)

\* the flag left as it is when the parent has been placed
MarkPositionedNever(s, p) == s

\* line 203: parent.positioned = True
MarkPositioned(s, p) == [s EXCEPT !.positioned[p] = TRUE]

\* One pass of the second loop of layout (lines 187-211) for the item
\* (dir, node) of the local connections dict.
LayoutPlace(s, p, dir, node) ==
    LET pr == get_bounding_rect(s, p)
        nr == get_bounding_rect(s, node)
        placed ==
          IF s.positioned[p]
            THEN LET xy == calculate_position(pr, nr, dir, MinSpacing, FALSE)
                     s1 == IF ~s.ginscene[node]
                             THEN AddToGroup(
                                    [s EXCEPT !.ginscene[node] = TRUE],
                                    node, node)
                             ELSE s
                     s2 == SetPos(s1, node, xy[1], xy[2])
                 IN  [s2 EXCEPT !.log = Append(@,
                        [gen |-> gen, moved |-> node, anchor |-> p,
                         via |-> dir, parent_to_node |-> FALSE])]
            ELSE LET xy == calculate_position(pr, nr, dir, MinSpacing, TRUE)
                     s1 == IF ~s.ginscene[p]
                             THEN AddToGroup(
                                    [s EXCEPT !.ginscene[p] = TRUE], p, p)
                             ELSE s
                     s2 == SetPos(s1, p, xy[1], xy[2])
                 IN  [MarkPositioned(s2, p) EXCEPT !.log = Append(@,
                        [gen |-> gen, moved |-> p, anchor |-> node,
                         via |-> InvertDirection(dir),
                         parent_to_node |-> TRUE])]
        items == get_nodes(node) \o get_nodes(node) \o <<node>>
        merge[i \in 0..Len(items)] ==
          IF i = 0 THEN placed ELSE AddToGroup(merge[i - 1], p, items[i])
    IN  merge[Len(items)]

RECURSIVE Layout(_, _)
RECURSIVE LayoutCollect(_, _, _, _, _)

\* the first loop of layout (lines 175-183): order is the walk of parent,
\* i the position in it, conn the local connections dict
LayoutCollect(s, p, order, i, conn) ==
    IF i > Len(order)
      THEN [s |-> s, conn |-> conn]
      ELSE LET node == order[i]
               dir == get_direction_to_child(p, node)
           IN  IF dir = None
                 THEN LayoutCollect(s, p, order, i + 1, conn)
                 ELSE LayoutCollect(
                        IF Len(walk_depth_first(node)) > 1
                          THEN Layout(s, node) ELSE s,
                        p, order, i + 1, DictSet(conn, dir, node))

\* layout(scene, root, parent, min_spacing, visited) on the scene state s;
\* s.visited is the visited list
Layout(s, p) ==
    IF InSeq(Node(p), s.visited)
      THEN s
      ELSE LET r == LayoutCollect([s EXCEPT !.visited = Append(@, Node(p))],
                                  p, walk_depth_first(p), 1, <<>>)
               place[i \in 0..Len(r.conn)] ==
                 IF i = 0 THEN r.s
                 ELSE LayoutPlace(place[i - 1], p, r.conn[i][1], r.conn[i][2])
           IN  place[Len(r.conn)]

----------------------------------------------------------------------------
(* connect_widgets *)

\* the offsets table with the child anchors of n and s exchanged
OffsetsNorthSouthSwapped(direction, p_w, p_h, n_w, n_h) ==
    CASE direction = "n"  -> <<p_w \div 2, 0, n_w \div 2, 0>>
      [] direction = "s"  -> <<p_w \div 2, p_h, n_w \div 2, n_h>>
      [] direction = "e"  -> <<p_w, p_h \div 2, 0, n_h \div 2>>
      [] direction = "w"  -> <<0, p_h \div 2, n_w, n_h \div 2>>
      [] direction = "nw" -> <<0, 0, n_w, n_h>>
      [] direction = "ne" -> <<p_w, 0, 0, n_h>>
      [] direction = "sw" -> <<0, p_h, n_w, 0>>
      [] direction = "se" -> <<p_w, p_h, 0, 0>>

\* the offsets table of connect_widgets (lines 241-250):
\* <<parent x, parent y, node x, node y>>
Offsets(direction, p_w, p_h, n_w, n_h) ==
    CASE direction = "n"  -> <<p_w \div 2, 0, n_w \div 2, n_h>>
      [] direction = "s"  -> <<p_w \div 2, p_h, n_w \div 2, 0>>
      [] direction = "e"  -> <<p_w, p_h \div 2, 0, n_h \div 2>>
      [] direction = "w"  -> <<0, p_h \div 2, n_w, n_h \div 2>>
      [] direction = "nw" -> <<0, 0, n_w, n_h>>
      [] direction = "ne" -> <<p_w, 0, 0, n_h>>
      [] direction = "sw" -> <<0, p_h, n_w, 0>>
      [] direction = "se" -> <<p_w, p_h, 0, 0>>

\* scene.addLine for the item (direction, node) of parent (lines 234-261);
\* the line is recorded with the edge it was drawn for
ConnectDraw(c, p, direction, node) ==
    LET offset == Offsets(direction, Width(p), Height(p),
                          Width(node), Height(node))
    IN  [c EXCEPT !.lines = Append(@,
           [x1 |-> spos[p][1] + offset[1], y1 |-> spos[p][2] + offset[2],
            x2 |-> spos[node][1] + offset[3],
            y2 |-> spos[node][2] + offset[4],
            gen |-> gen, parent |-> p, direction |-> direction,
            node |-> node])]

RECURSIVE Connect(_, _)
RECURSIVE ConnectCollect(_, _, _, _, _)

\* the first loop of connect_widgets (lines 224-232)
ConnectCollect(c, p, order, i, conn) ==
    IF i > Len(order)
      THEN [c |-> c, conn |-> conn]
      ELSE LET node == order[i]
               dir == get_direction_to_child(p, node)
           IN  IF dir = None
                 THEN ConnectCollect(c, p, order, i + 1, conn)
                 ELSE ConnectCollect(
                        IF Len(walk_depth_first(node)) > 1
                          THEN Connect(c, node) ELSE c,
                        p, order, i + 1, DictSet(conn, dir, node))

\* connect_widgets(scene, parent, visited) on c = [visited, lines]
Connect(c, p) ==
    IF InSeq(Node(p), c.visited)
      THEN c
      ELSE LET r == ConnectCollect([c EXCEPT !.visited = Append(@, Node(p))],
                                   p, walk_depth_first(p), 1, <<>>)
               draw[i \in 0..Len(r.conn)] ==
                 IF i = 0 THEN r.c
                 ELSE ConnectDraw(draw[i - 1], p, r.conn[i][1], r.conn[i][2])
           IN  draw[Len(r.conn)]

----------------------------------------------------------------------------
(* remove_groups *)

\* scene.destroyItemGroup(group): the members leave the group where they
\* are and the group is removed from the scene
DestroyItemGroup(t, g) ==
    [t EXCEPT !.member = [sh \in DOMAIN t.member |->
                            IF t.member[sh] = g THEN None ELSE t.member[sh]],
              !.ginscene[g] = FALSE]

RECURSIVE RemoveGroups(_, _)
RECURSIVE RemoveLoop(_, _, _)

\* the loop of remove_groups (lines 265-270); i is the position in
\* parent.connections
RemoveLoop(t, p, i) ==
    IF i > Len(connections[p])
      THEN t
      ELSE LET node == connections[p][i][2]
           IN  IF InSeq(Node(node), t.visited)
                 THEN RemoveLoop(t, p, i + 1)
                 ELSE RemoveLoop(
                        RemoveGroups(
                          [t EXCEPT !.visited = Append(@, Node(node))], node),
                        p, i + 1)

\* remove_groups(scene, parent, visited) on t = [visited, member, ginscene]
RemoveGroups(t, p) == DestroyItemGroup(RemoveLoop(t, p, 1), p)

----------------------------------------------------------------------------
(* build_tree *)

\* the (parent idx, direction, child idx) triples in the order the loops
\* of lines 77-80 visit them
RECURSIVE DeclaredEdges(_, _, _)
DeclaredEdges(idseq, d, i) ==
    IF i > Len(idseq)
      THEN <<>>
      ELSE LET n == idseq[i]
               items == IF n \in DOMAIN d THEN d[n] ELSE <<>>
           IN  [j \in 1..Len(items) |-> <<n, items[j][1], items[j][2]>>]
               \o DeclaredEdges(idseq, d, i + 1)

\* the check on the parent-less nodes, failing only when there is none
RootOutcomeAnyRoot(rootl) ==
    IF Len(rootl) = 0
      THEN [outcome |-> "error", root |-> None]
      ELSE [outcome |-> "root", root |-> rootl[1]]

\* lines 85-88: the check on the list of parent-less nodes
RootOutcome(rootl) ==
    IF Len(rootl) # 1
      THEN [outcome |-> "error", root |-> None]
      ELSE [outcome |-> "root", root |-> rootl[1]]

\* build_tree(shapes, connections)
build_tree(idseq, d) ==
    LET nodes == {idseq[i] : i \in 1..Len(idseq)}
        edges == DeclaredEdges(idseq, d, 1)
        par[i \in 0..Len(edges)] ==
          IF i = 0 THEN [n \in nodes |-> None]
          ELSE [par[i - 1] EXCEPT ![edges[i][3]] = edges[i][1]]
        conn == [n \in nodes |-> IF n \in DOMAIN d THEN d[n] ELSE <<>>]
        rootl == SelectSeq(idseq, LAMBDA n : par[Len(edges)][n] = None)
        res == RootOutcome(rootl)
    IN  [outcome |-> res.outcome, root |-> res.root,
         parent |-> par[Len(edges)], connections |-> conn]

----------------------------------------------------------------------------
(* Bounds and inputs *)

\* top-level calls of layout, connect_widgets and remove_groups
MaxCalls == 3

\* build_tree calls over one shape set
MaxBuilds == 2

\* declared edges of the declarations build_tree is tried on
MaxEdges == 3

\* coordinates and spacing of the direct calculate_position calls
MaxCoord == 1
MaxSpacing == 1

Prefix(n) == [i \in 1..n |-> ShapeOrder[i]]

\* The declaration in which shape k (k >= 2) is the child of shape pv[k]
\* (none when pv[k] = 0) in direction dv[k].
TreeDecl(n, pv, dv) ==
    [p \in {ShapeOrder[i] : i \in 1..n} |->
       LET ks == SelectSeq([k \in 1..n |-> k],
                           LAMBDA k : k >= 2 /\ pv[k] # 0
                                      /\ ShapeOrder[pv[k]] = p)
       IN  [i \in 1..Len(ks) |-> <<dv[ks[i]], ShapeOrder[ks[i]]>>]]

\* a dict has one item per key
UniqueKeys(d) ==
    \A p \in DOMAIN d : \A i, j \in 1..Len(d[p]) :
        d[p][i][1] = d[p][j][1] => i = j

\* the declaration made of a sequence of edges <<parent, direction, child>>
EdgeDecl(n, es) ==
    [p \in {ShapeOrder[i] : i \in 1..n} |->
       LET mine == SelectSeq(es, LAMBDA e : e[1] = p)
       IN  [i \in 1..Len(mine) |-> <<mine[i][2], mine[i][3]>>]]

Coords == (0 - MaxCoord)..MaxCoord
Sizes == {2, 4}

\* arguments of calculate_position in which no group is larger than its
\* shape
CalcInputs ==
    [direction : Dirs, parent_to_node : BOOLEAN, min_spacing : 0..MaxSpacing,
     px : Coords, py : Coords, pw : Sizes, ph : Sizes,
     nx : Coords, ny : Coords, nw : Sizes, nh : Sizes]

----------------------------------------------------------------------------
(* Initial states *)

Origin == <<0, 0>>

InitCommon ==
    /\ gen = 0
    /\ outcome = "none"
    /\ root = None
    /\ connections = [n \in AllShapes |-> <<>>]
    /\ parent = [n \in AllShapes |-> None]
    /\ positioned = [n \in AllShapes |-> FALSE]
    /\ spos = [n \in AllShapes |-> Origin]
    /\ member = [n \in AllShapes |-> None]
    /\ gpos = [n \in AllShapes |-> Origin]
    /\ grect = [n \in AllShapes |-> NullRect]
    /\ ginscene = [n \in AllShapes |-> FALSE]
    /\ lvisited = <<>>
    /\ cvisited = <<>>
    /\ rvisited = <<>>
    /\ lines = <<>>
    /\ log = <<>>
    /\ calls = 0
    /\ lastOp = "none"
    /\ entryGuard = <<>>
    /\ lineMark = 0
    /\ cycle = "fresh"

\* the shapes are in the scene at the origin (scene.addWidget) and a
\* declaration is about to be laid out
\* The declarations the layout is run on: every shape after the first is
\* declared as the child of an earlier shape, or of none.
Init ==
    /\ \E n \in 1..Len(ShapeOrder) :
         \E pv \in [2..n -> 0..(n - 1)], dv \in [2..n -> Dirs] :
            /\ \A k \in 2..n : pv[k] < k
            /\ UniqueKeys(TreeDecl(n, pv, dv))
            /\ ids = Prefix(n)
            /\ decl = TreeDecl(n, pv, dv)
    /\ InitCommon
    /\ phase = "new"
    /\ cin = <<>>
    /\ cout = <<>>

BuildDirs == {"e", "s"}

\* The declarations build_tree is tried on: any sequence of at most
\* MaxEdges edges between the shapes.
InitBuild ==
    /\ \E n \in 1..Len(ShapeOrder), m \in 0..MaxEdges :
         \E es \in [1..m -> {ShapeOrder[i] : i \in 1..n} \X BuildDirs
                            \X {ShapeOrder[i] : i \in 1..n}] :
            /\ UniqueKeys(EdgeDecl(n, es))
            /\ ids = Prefix(n)
            /\ decl = EdgeDecl(n, es)
    /\ InitCommon
    /\ phase = "new"
    /\ cin = <<>>
    /\ cout = <<>>

InitCalc ==
    /\ ids = <<>>
    /\ decl = <<>>
    /\ InitCommon
    /\ phase = "calc"
    /\ cin \in CalcInputs
    /\ cout = <<>>

----------------------------------------------------------------------------
(* Actions *)

\* root = build_tree(shapes, connections): new nodes with new, empty groups
\* over the shapes where they are; called on a new declaration, and again
\* once the tree it gave has been laid out
BuildTree ==
    /\ phase \in {"new", "laid", "torn"}
    /\ gen < MaxBuilds
    /\ LET r == build_tree(ids, decl)
       IN  /\ outcome' = r.outcome
           /\ root' = r.root
           /\ parent' = [n \in AllShapes |->
                           IF n \in IdSet THEN r.parent[n] ELSE None]
           /\ connections' = [n \in AllShapes |->
                                IF n \in IdSet THEN r.connections[n]
                                ELSE <<>>]
           /\ phase' = IF r.outcome = "root" THEN "built" ELSE "failed"
    /\ gen' = gen + 1
    /\ positioned' = [n \in AllShapes |-> FALSE]
    /\ member' = [n \in AllShapes |-> None]
    /\ gpos' = [n \in AllShapes |-> Origin]
    /\ grect' = [n \in AllShapes |-> NullRect]
    /\ ginscene' = [n \in AllShapes |-> FALSE]
    /\ lastOp' = "build"
    /\ UNCHANGED <<ids, decl, spos, lvisited, cvisited, rvisited, lines, log,
                   calls, entryGuard, lineMark, cycle, cin, cout>>

\* layout(scene, root, root)
LayoutCall ==
    /\ phase \in {"built", "laid", "torn"}
    /\ calls < MaxCalls
    /\ LET s == Layout([spos |-> spos, member |-> member, gpos |-> gpos,
                        grect |-> grect, ginscene |-> ginscene,
                        positioned |-> positioned, visited |-> lvisited,
                        log |-> log], root)
       IN  /\ spos' = s.spos
           /\ member' = s.member
           /\ gpos' = s.gpos
           /\ grect' = s.grect
           /\ ginscene' = s.ginscene
           /\ positioned' = s.positioned
           /\ lvisited' = s.visited
           /\ log' = s.log
    /\ phase' = IF phase = "built" THEN "laid" ELSE phase
    /\ cycle' = CASE cycle = "fresh" -> "laid"
                  [] cycle = "torn" -> "relaid"
                  [] OTHER -> cycle
    /\ calls' = calls + 1
    /\ lastOp' = "layout"
    /\ entryGuard' = lvisited
    /\ lineMark' = Len(lines)
    /\ UNCHANGED <<ids, decl, gen, outcome, root, connections, parent,
                   cvisited, rvisited, lines, cin, cout>>

\* connect_widgets(scene, root), after layout
ConnectCall ==
    /\ phase \in {"laid", "torn"}
    /\ calls < MaxCalls
    /\ LET c == Connect([visited |-> cvisited, lines |-> lines], root)
       IN  /\ cvisited' = c.visited
           /\ lines' = c.lines
    /\ calls' = calls + 1
    /\ lastOp' = "connect"
    /\ entryGuard' = cvisited
    /\ lineMark' = Len(lines)
    /\ UNCHANGED <<ids, decl, gen, outcome, root, connections, parent,
                   positioned, spos, member, gpos, grect, ginscene, lvisited,
                   rvisited, log, phase, cycle, cin, cout>>

\* remove_groups(scene, root), on a laid-out tree whose groups exist
RemoveCall ==
    /\ phase = "laid"
    /\ calls < MaxCalls
    /\ LET t == RemoveGroups([visited |-> rvisited, member |-> member,
                              ginscene |-> ginscene], root)
       IN  /\ rvisited' = t.visited
           /\ member' = t.member
           /\ ginscene' = t.ginscene
    /\ phase' = "torn"
    /\ cycle' = "torn"
    /\ calls' = calls + 1
    /\ lastOp' = "remove"
    /\ entryGuard' = rvisited
    /\ lineMark' = Len(lines)
    /\ UNCHANGED <<ids, decl, gen, outcome, root, connections, parent,
                   positioned, spos, gpos, grect, lvisited, cvisited, lines,
                   log, cin, cout>>

\* a direct call of calculate_position on two boxes
Calculate ==
    /\ phase = "calc"
    /\ cout = <<>>
    /\ LET p == [x |-> cin.px, y |-> cin.py, w |-> cin.pw, h |-> cin.ph,
                 gx |-> cin.px, gy |-> cin.py, gw |-> cin.pw, gh |-> cin.ph]
           n == [x |-> cin.nx, y |-> cin.ny, w |-> cin.nw, h |-> cin.nh,
                 gx |-> cin.nx, gy |-> cin.ny, gw |-> cin.nw, gh |-> cin.nh]
       IN  cout' = calculate_position(p, n, cin.direction, cin.min_spacing,
                                      cin.parent_to_node)
    /\ UNCHANGED <<ids, decl, gen, outcome, root, connections, parent,
                   positioned, spos, member, gpos, grect, ginscene, lvisited,
                   cvisited, rvisited, lines, log, calls, lastOp, entryGuard,
                   lineMark, phase, cycle, cin>>

Next == BuildTree \/ LayoutCall \/ ConnectCall \/ RemoveCall

Spec == Init /\ [][Next]_vars

NextBuild == BuildTree

SpecBuild == InitBuild /\ [][NextBuild]_vars

NextCalc == Calculate

SpecCalc == InitCalc /\ [][NextCalc]_vars

----------------------------------------------------------------------------
(* Properties *)

\* the declared edges ending in n
EdgesInto(n) ==
    {pi \in IdSet \X (1..Len(ShapeOrder) * Cardinality(Dirs)) :
        /\ pi[1] \in DOMAIN decl
        /\ pi[2] <= Len(decl[pi[1]])
        /\ decl[pi[1]][pi[2]][2] = n}

\* the shapes no declared edge ends in
Parentless == {n \in IdSet : EdgesInto(n) = {}}

\* C1: build_tree returns a node exactly when one node is left without a
\* parent once all declared edges are applied, and it is that node; with
\* no such node or several it raises and there is no root.
C1_RootIffOneParentless ==
    gen > 0 =>
      /\ outcome \in {"root", "error"}
      /\ (outcome = "root") <=> (Cardinality(Parentless) = 1)
      /\ outcome = "root" => Parentless = {root}
      /\ outcome = "error" => root = None

C1_Witness ==
    /\ outcome = "root"
    /\ Len(ids) = Len(ShapeOrder)
    /\ root # ShapeOrder[1]

Children(n) == {connections[n][i][2] : i \in 1..Len(connections[n])}

RECURSIVE ReachableFrom(_)
ReachableFrom(S) ==
    LET T == S \cup UNION {Children(n) : n \in S}
    IN  IF T = S THEN S ELSE ReachableFrom(T)

\* C2: whenever build_tree returns a root, every other node is in exactly
\* one child list, exactly once, the root is in none, and every node is
\* reachable from the root.
C2_ResultIsTree ==
    outcome = "root" =>
      /\ \A n \in IdSet \ {root} : Cardinality(EdgesInto(n)) = 1
      /\ EdgesInto(root) = {}
      /\ ReachableFrom({root}) = IdSet

\* C3: after the first top-level layout of a tree with at least one edge
\* has returned, every node of the tree is positioned.
C3_AllPositioned ==
    (phase = "laid" /\ Len(ids) > 1) => \A n \in IdSet : positioned[n]

\* the end-to-end chain A -e-> B -s-> C
IsChain ==
    /\ ids = <<"A", "B", "C">>
    /\ decl = [n \in {"A", "B", "C"} |->
                 CASE n = "A" -> << <<"e", "B">> >>
                   [] n = "B" -> << <<"s", "C">> >>
                   [] OTHER -> <<>>]

\* the placements logged for the current nodes
LogOfGen == SelectSeq(log, LAMBDA e : e.gen = gen)

\* C4, as claimed: the chain is laid out by placing C relative to B, then
\* A relative to B along w, then B relative to A along e.
C4_ClaimedOrder ==
    (IsChain /\ phase = "laid" /\ gen = 1) =>
      /\ Len(log) = 3
      /\ log[1].moved = "C" /\ log[1].anchor = "B"
      /\ log[2].moved = "A" /\ log[2].anchor = "B" /\ log[2].via = "w"
      /\ log[3].moved = "B" /\ log[3].anchor = "A" /\ log[3].via = "e"

\* the placements logged for the edge from p to its i-th child
PlacementsOf(p, i) ==
    {k \in 1..Len(LogOfGen) :
        LET e == LogOfGen[k]
            c == connections[p][i][2]
        IN  \/ e.moved = p /\ e.anchor = c /\ e.parent_to_node
            \/ e.moved = c /\ e.anchor = p /\ ~e.parent_to_node}

\* C4, amended: the chain is laid out by placing B relative to C along the
\* inverted direction n, then A relative to B along the inverted direction
\* w, and nothing else; C stays where it is, spacing 30 apart.  In
\* general the layout of a tree places every edge exactly once: the parent
\* relative to its first child, every later child relative to the parent.
C4_ActualOrder ==
    /\ (IsChain /\ phase = "laid" /\ gen = 1) =>
         /\ log = << [gen |-> 1, moved |-> "B", anchor |-> "C", via |-> "n",
                      parent_to_node |-> TRUE],
                     [gen |-> 1, moved |-> "A", anchor |-> "B", via |-> "w",
                      parent_to_node |-> TRUE] >>
         /\ spos["C"] = Origin
         /\ spos["B"] = <<spos["C"][1] + 10 - 15, spos["C"][2] - 30 - 10>>
         /\ spos["C"][2] = spos["B"][2] + 10 + 30
         /\ spos["A"] = <<spos["B"][1] - 30 - 40, spos["B"][2] + 5 - 10>>
    /\ phase \in {"laid", "torn"} =>
         \A p \in IdSet : \A i \in 1..Len(connections[p]) :
            /\ Cardinality(PlacementsOf(p, i)) = 1
            /\ \A k \in PlacementsOf(p, i) :
                  LogOfGen[k].parent_to_node <=> (i = 1)

C4_Witness ==
    /\ IsChain
    /\ phase = "laid"
    /\ gen = 1
    /\ Len(log) = 2

\* C5: the box calculate_position places lies on the side of the other
\* box that the direction names, at least min_spacing away along every
\* axis the direction names (the child on the declared side of the parent).
C5_SideAndClearance ==
    (phase = "calc" /\ cout # <<>>) =>
      LET d == cin.direction
          ms == cin.min_spacing
          P == IF cin.parent_to_node
                 THEN [x |-> cout[1], y |-> cout[2]]
                 ELSE [x |-> cin.px, y |-> cin.py]
          N == IF cin.parent_to_node
                 THEN [x |-> cin.nx, y |-> cin.ny]
                 ELSE [x |-> cout[1], y |-> cout[2]]
      IN  /\ HasChar("e", d) => N.x >= P.x + cin.pw + ms
          /\ HasChar("w", d) => N.x + cin.nw + ms <= P.x
          /\ HasChar("n", d) => N.y + cin.nh + ms <= P.y
          /\ HasChar("s", d) => N.y >= P.y + cin.ph + ms

\* the lines the last top-level call added
NewLines == SubSeq(lines, lineMark + 1, Len(lines))

\* C6: a top-level connect_widgets call on a laid-out tree adds exactly one
\* line for every declared edge of the tree.
C6_OneLinePerEdge ==
    lastOp = "connect" =>
      /\ \A p \in IdSet : \A i \in 1..Len(connections[p]) :
            Cardinality({k \in 1..Len(NewLines) :
                           /\ NewLines[k].parent = p
                           /\ NewLines[k].direction = connections[p][i][1]
                           /\ NewLines[k].node = connections[p][i][2]}) = 1
      /\ \A k \in 1..Len(NewLines) :
            \E i \in 1..Len(connections[NewLines[k].parent]) :
               connections[NewLines[k].parent][i] =
                 <<NewLines[k].direction, NewLines[k].node>>

\* the anchor of a pw x ph parent and of an nw x nh child for a direction
ParentAnchor(d, pw, ph) ==
    CASE d = "n" -> <<pw \div 2, 0>>    [] d = "s" -> <<pw \div 2, ph>>
      [] d = "e" -> <<pw, ph \div 2>>   [] d = "w" -> <<0, ph \div 2>>
      [] d = "ne" -> <<pw, 0>>          [] d = "nw" -> <<0, 0>>
      [] d = "se" -> <<pw, ph>>         [] d = "sw" -> <<0, ph>>

ChildAnchor(d, nw, nh) ==
    CASE d = "n" -> <<nw \div 2, nh>>   [] d = "s" -> <<nw \div 2, 0>>
      [] d = "e" -> <<0, nh \div 2>>    [] d = "w" -> <<nw, nh \div 2>>
      [] d = "ne" -> <<0, nh>>          [] d = "nw" -> <<nw, nh>>
      [] d = "se" -> <<0, 0>>           [] d = "sw" -> <<nw, 0>>

\* C7: every line connect_widgets draws starts at the parent's scene
\* position plus the parent anchor of the edge's direction and ends at the
\* child's scene position plus the child anchor.
C7_AnchorPoints ==
    lastOp = "connect" =>
      \A k \in 1..Len(NewLines) :
         LET l == NewLines[k]
             pa == ParentAnchor(l.direction, Width(l.parent),
                                Height(l.parent))
             ca == ChildAnchor(l.direction, Width(l.node), Height(l.node))
         IN  /\ l.x1 = spos[l.parent][1] + pa[1]
             /\ l.y1 = spos[l.parent][2] + pa[2]
             /\ l.x2 = spos[l.node][1] + ca[1]
             /\ l.y2 = spos[l.node][2] + ca[2]

C7_Witness ==
    /\ lastOp = "connect"
    /\ Len(NewLines) = 3
    /\ \E k \in 1..3 : NewLines[k].direction = "ne"
    /\ \E k \in 1..3 : NewLines[k].direction = "s"
    /\ \E k \in 1..3 : NewLines[k].direction = "w"
    /\ \E n \in IdSet : spos[n] # Origin

\* C8: every top-level call of layout, connect_widgets and remove_groups
\* starts with an empty visited list, so that it does not return at once
\* on a root an earlier call visited.
C8_GuardPerCall ==
    lastOp \in {"layout", "connect", "remove"} =>
      /\ entryGuard = <<>>
      /\ ~InSeq(Node(root), entryGuard)

\* the scene of a shape set that was never laid out or grouped
FreshScene ==
    [spos |-> [n \in AllShapes |-> Origin],
     member |-> [n \in AllShapes |-> None],
     gpos |-> [n \in AllShapes |-> Origin],
     grect |-> [n \in AllShapes |-> NullRect],
     ginscene |-> [n \in AllShapes |-> FALSE],
     positioned |-> [n \in AllShapes |-> FALSE],
     visited |-> <<>>, log |-> <<>>]

\* C9: once a laid-out tree has been torn down and layout has run again
\* over the same shapes, every shape is where a single layout of a fresh
\* copy of the shapes puts it.
C9_RelayoutIsFresh ==
    (cycle = "relaid" /\ lastOp = "layout") =>
       spos = Layout(FreshScene, root).spos

\* C10: when the layout of a tree returns, the root's group holds the
\* shape of every descendant of the root.
C10_RootGroupHoldsSubtree ==
    (phase = "laid" /\ lastOp = "layout") =>
       \A n \in IdSet \ {root} : member[n] = root

====
